---- MODULE Spec2Model ----
(***************************************************************************)
(* Model of the REMOVE TAGGING migration (main.go): three keyset-paginated *)
(* table migrators (bulk, partner, client) run in sequence by main, the    *)
(* URL sanitizer removeTagParamsFromURL and the bulk archive normalizer    *)
(* normalizeBulkArchiveURL.                                                *)
(*                                                                         *)
(* A Go string is a sequence of one-character strings, so that TrimSpace,  *)
(* HasPrefix, Split, url.Parse, Values.Encode and URL.String are computed  *)
(* character by character as the libraries compute them.                   *)
(***************************************************************************)
EXTENDS Integers, Sequences, FiniteSets, TLC

\* ------------------------------------------------------------------------
\* Bounds of the model
\* ------------------------------------------------------------------------

\* largest number of rows a table starts with
MaxRows == 3

\* largest BATCH_SIZE tried (batch sizes 1..MaxBatch)
MaxBatch == 3

\* most row writes the store refuses in one behaviour
MaxWriteFailures == 2

\* most times the process is killed and started again (SpecRestart)
MaxRestarts == 1

\* most query parameters of a URL a helper is applied to on its own (SpecURL)
MaxPairs == 2

\* ------------------------------------------------------------------------
\* package strings
\* ------------------------------------------------------------------------

Space == {" ", "\t", "\n"}

RECURSIVE TrimLeftSpace(_)
TrimLeftSpace(s) ==
    IF s # <<>> /\ Head(s) \in Space THEN TrimLeftSpace(Tail(s)) ELSE s

RECURSIVE TrimRightSpace(_)
TrimRightSpace(s) ==
    IF s # <<>> /\ s[Len(s)] \in Space
    THEN TrimRightSpace(SubSeq(s, 1, Len(s) - 1))
    ELSE s

\* strings.TrimSpace
TrimSpace(s) == TrimRightSpace(TrimLeftSpace(s))

\* strings.HasPrefix
HasPrefix(s, p) == Len(s) >= Len(p) /\ SubSeq(s, 1, Len(p)) = p

\* strings.HasSuffix, for a one-character suffix
HasSuffix(s, c) == s # <<>> /\ s[Len(s)] = c

\* strings.IndexByte, 1-based; 0 when c does not occur in s
Index(s, c) ==
    IF \E i \in 1..Len(s) : s[i] = c
    THEN CHOOSE i \in 1..Len(s) : s[i] = c /\ \A j \in 1..(i - 1) : s[j] # c
    ELSE 0

\* strings.LastIndexByte, 1-based; 0 when c does not occur in s
LastIndex(s, c) ==
    IF \E i \in 1..Len(s) : s[i] = c
    THEN CHOOSE i \in 1..Len(s) : s[i] = c /\ \A j \in (i + 1)..Len(s) : s[j] # c
    ELSE 0

\* strings.Contains, for a one-character substring
Contains(s, c) == Index(s, c) # 0

\* strings.Count, for a one-character substring
Count(s, c) == Cardinality({i \in 1..Len(s) : s[i] = c})

\* strings.Cut: the text before and after the first c, all of s when absent
CutBefore(s, c) == IF Index(s, c) = 0 THEN s ELSE SubSeq(s, 1, Index(s, c) - 1)
CutAfter(s, c) == IF Index(s, c) = 0 THEN <<>> ELSE SubSeq(s, Index(s, c) + 1, Len(s))

\* strings.Split(s, c): always at least one part
RECURSIVE Split(_, _)
Split(s, c) ==
    IF Index(s, c) = 0 THEN <<s>> ELSE <<CutBefore(s, c)>> \o Split(CutAfter(s, c), c)

RECURSIVE TrimLeftChar(_, _)
TrimLeftChar(s, c) == IF s # <<>> /\ Head(s) = c THEN TrimLeftChar(Tail(s), c) ELSE s

\* strings.TrimRight(s, c), for a one-character cutset
RECURSIVE TrimRight(_, _)
TrimRight(s, c) ==
    IF s # <<>> /\ s[Len(s)] = c THEN TrimRight(SubSeq(s, 1, Len(s) - 1), c) ELSE s

\* strings.Trim(s, c), for a one-character cutset
Trim(s, c) == TrimRight(TrimLeftChar(s, c), c)

Lower ==
    {"a", "b", "c", "d", "e", "f", "g", "h", "i", "j", "k", "l", "m", "n", "o", "p", "q", "r",
     "s", "t", "u", "v", "w", "x", "y", "z"}
Upper == {"A", "B", "C", "D", "E", "F", "S", "T"}
Digit == {"0", "1", "2", "3", "4", "5", "6", "7", "8", "9"}

ToLowerChar(c) ==
    CASE c = "A" -> "a" [] c = "B" -> "b" [] c = "C" -> "c" [] c = "D" -> "d"
      [] c = "E" -> "e" [] c = "F" -> "f" [] c = "S" -> "s" [] c = "T" -> "t"
      [] OTHER -> c

\* strings.ToLower
ToLower(s) == [i \in 1..Len(s) |-> ToLowerChar(s[i])]

\* concatenation of a sequence of strings, sep between them (strings.Join)
RECURSIVE Join(_, _)
Join(parts, sep) ==
    IF parts = <<>> THEN <<>>
    ELSE IF Len(parts) = 1 THEN parts[1]
    ELSE parts[1] \o sep \o Join(Tail(parts), sep)

\* ------------------------------------------------------------------------
\* package net/url
\* ------------------------------------------------------------------------

\* the bytes that occur in the model's strings and may be percent-encoded,
\* as <<character, high hex digit, low hex digit>>
ByteTable ==
    { <<" ", "2", "0">>, <<"#", "2", "3">>, <<"%", "2", "5">>, <<"&", "2", "6">>,
      <<"+", "2", "B">>, <<"/", "2", "F">>, <<":", "3", "A">>, <<";", "3", "B">>,
      <<"=", "3", "D">>, <<"?", "3", "F">>, <<"a", "6", "1">>, <<"t", "7", "4">> }

ishex(c) == c \in Digit \cup {"A", "B", "C", "D", "E", "F", "a", "b", "c", "d", "e", "f"}

KnownByte(h, l) == \E b \in ByteTable : ToLower(<<b[2], b[3]>>) = ToLower(<<h, l>>)
Unhex(h, l) == (CHOOSE b \in ByteTable : ToLower(<<b[2], b[3]>>) = ToLower(<<h, l>>))[1]
Hex(c) == LET b == CHOOSE x \in ByteTable : x[1] = c IN <<"%", b[2], b[3]>>

\* shouldEscape(c, mode) for the modes "path", "host", "query" (encodeQueryComponent)
\* and "fragment"
shouldEscape(c, mode) ==
    IF c \in Lower \cup Upper \cup Digit THEN FALSE
    ELSE IF c \in {"-", "_", ".", "~"} THEN FALSE
    ELSE IF mode = "host" /\ c \in {"!", "$", "&", "'", "(", ")", "*", "+", ",", ";", "=", ":", "[", "]", "<", ">", "\""}
    THEN FALSE
    ELSE IF c \in {"$", "&", "+", ",", "/", ":", ";", "=", "?", "@"}
    THEN CASE mode = "path" -> c = "?"
           [] mode = "query" -> TRUE
           [] mode = "fragment" -> FALSE
           [] OTHER -> TRUE
    ELSE IF mode = "fragment" /\ c \in {"!", "(", ")", "*"} THEN FALSE
    ELSE TRUE

\* unescape(s, mode) fails on a "%" that is not followed by two hex digits, and in
\* host mode on a character a host may not hold
RECURSIVE unescapeOK(_, _)
unescapeOK(s, mode) ==
    IF s = <<>> THEN TRUE
    ELSE IF Head(s) = "%"
    THEN /\ Len(s) >= 3
         /\ ishex(s[2])
         /\ ishex(s[3])
         /\ mode # "host"
         /\ KnownByte(s[2], s[3])
         /\ unescapeOK(SubSeq(s, 4, Len(s)), mode)
    ELSE /\ ~(mode = "host" /\ shouldEscape(Head(s), "host"))
         /\ unescapeOK(Tail(s), mode)

RECURSIVE unescape(_, _)
unescape(s, mode) ==
    IF s = <<>> THEN <<>>
    ELSE IF Head(s) = "%"
    THEN <<Unhex(s[2], s[3])>> \o unescape(SubSeq(s, 4, Len(s)), mode)
    ELSE IF Head(s) = "+" /\ mode = "query"
    THEN <<" ">> \o unescape(Tail(s), mode)
    ELSE <<Head(s)>> \o unescape(Tail(s), mode)

RECURSIVE escape(_, _)
escape(s, mode) ==
    IF s = <<>> THEN <<>>
    ELSE IF shouldEscape(Head(s), mode)
    THEN (IF Head(s) = " " /\ mode = "query" THEN <<"+">> ELSE Hex(Head(s)))
         \o escape(Tail(s), mode)
    ELSE <<Head(s)>> \o escape(Tail(s), mode)

\* validEncoded(s, mode)
validEncoded(s, mode) ==
    \A i \in 1..Len(s) :
        \/ s[i] \in {"!", "$", "&", "'", "(", ")", "*", "+", ",", ";", "=", ":", "@", "[", "]", "%"}
        \/ ~shouldEscape(s[i], mode)

\* stringContainsCTLByte
stringContainsCTLByte(s) == \E i \in 1..Len(s) : s[i] \in {"\t", "\n"}

\* getScheme: <<ok, scheme, rest>>
RECURSIVE getSchemeFrom(_, _)
getSchemeFrom(rawURL, i) ==
    IF i > Len(rawURL) THEN <<TRUE, <<>>, rawURL>>
    ELSE IF rawURL[i] \in Lower \cup Upper THEN getSchemeFrom(rawURL, i + 1)
    ELSE IF rawURL[i] \in Digit \cup {"+", "-", "."}
    THEN (IF i = 1 THEN <<TRUE, <<>>, rawURL>> ELSE getSchemeFrom(rawURL, i + 1))
    ELSE IF rawURL[i] = ":"
    THEN (IF i = 1 THEN <<FALSE, <<>>, <<>>>>
          ELSE <<TRUE, SubSeq(rawURL, 1, i - 1), SubSeq(rawURL, i + 1, Len(rawURL))>>)
    ELSE <<TRUE, <<>>, rawURL>>

getScheme(rawURL) == getSchemeFrom(rawURL, 1)

\* validOptionalPort and the host characters parseHost accepts
parseHostOK(host) ==
    /\ unescapeOK(host, "host")
    /\ LET i == LastIndex(host, ":")
       IN i = 0 \/ \A j \in (i + 1)..Len(host) : host[j] \in Digit

NoURL ==
    [err |-> TRUE, Scheme |-> <<>>, Opaque |-> <<>>, Host |-> <<>>, Path |-> <<>>,
     RawPath |-> <<>>, OmitHost |-> FALSE, ForceQuery |-> FALSE, RawQuery |-> <<>>,
     Fragment |-> <<>>, RawFragment |-> <<>>]

\* url.parse, from the authority on: rest is what follows the scheme and precedes
\* the query, u holds the scheme and the query
parsePath(u, rest0, hasAuthority, authority, rest) ==
    IF ~HasPrefix(rest0, <<"/">>) /\ u.Scheme # <<>> THEN [u EXCEPT !.Opaque = rest0]
    ELSE IF ~HasPrefix(rest0, <<"/">>) /\ Contains(CutBefore(rest0, "/"), ":") THEN NoURL
    ELSE IF hasAuthority /\ ~parseHostOK(authority) THEN NoURL
    ELSE IF ~unescapeOK(rest, "path") THEN NoURL
    ELSE [u EXCEPT !.Host = IF hasAuthority THEN authority ELSE <<>>,
                   !.OmitHost = ~hasAuthority /\ u.Scheme # <<>> /\ HasPrefix(rest0, <<"/">>),
                   !.Path = unescape(rest, "path"),
                   !.RawPath = IF escape(unescape(rest, "path"), "path") = rest
                               THEN <<>> ELSE rest]

\* url.parse, the authority: "//" starts it and the next "/" ends it
parseAuthority(u, rest0, hasAuthority) ==
    parsePath(u, rest0, hasAuthority,
              IF hasAuthority THEN CutBefore(SubSeq(rest0, 3, Len(rest0)), "/") ELSE <<>>,
              IF hasAuthority
              THEN SubSeq(rest0, 3 + Len(CutBefore(SubSeq(rest0, 3, Len(rest0)), "/")), Len(rest0))
              ELSE rest0)

\* url.parse, from the query on: a lone trailing "?" sets ForceQuery, otherwise the
\* first "?" starts RawQuery
parseQueryPart(scheme, afterScheme, force) ==
    parseAuthority([NoURL EXCEPT !.err = FALSE, !.Scheme = scheme, !.ForceQuery = force,
                                 !.RawQuery = IF force THEN <<>> ELSE CutAfter(afterScheme, "?")],
                   IF force THEN SubSeq(afterScheme, 1, Len(afterScheme) - 1)
                   ELSE CutBefore(afterScheme, "?"),
                   (scheme # <<>> \/ ~HasPrefix(afterScheme, <<"/", "/", "/">>))
                   /\ HasPrefix(afterScheme, <<"/", "/">>))

\* url.parse, after getScheme returned sch
parseScheme(rawURL, sch) ==
    IF stringContainsCTLByte(rawURL) THEN NoURL
    ELSE IF rawURL = <<"*">> THEN [NoURL EXCEPT !.err = FALSE, !.Path = <<"*">>]
    ELSE IF ~sch[1] THEN NoURL
    ELSE parseQueryPart(ToLower(sch[2]), sch[3],
                        HasSuffix(sch[3], "?") /\ Count(sch[3], "?") = 1)

\* url.parse(rawURL, viaRequest = false) of a string without its fragment
parse(rawURL) == parseScheme(rawURL, getScheme(rawURL))

\* URL.setFragment, called for a fragment that is not empty
setFragment(u, frag) ==
    IF u.err \/ frag = <<>> THEN u
    ELSE IF ~unescapeOK(frag, "fragment") THEN NoURL
    ELSE [u EXCEPT !.Fragment = unescape(frag, "fragment"),
                   !.RawFragment = IF escape(unescape(frag, "fragment"), "fragment") = frag
                                   THEN <<>> ELSE frag]

\* url.Parse: the fragment is cut off first, then set with setFragment
Parse(rawURL) == setFragment(parse(CutBefore(rawURL, "#")), CutAfter(rawURL, "#"))

\* URL.EscapedPath
EscapedPath(u) ==
    IF u.RawPath # <<>> /\ validEncoded(u.RawPath, "path")
       /\ unescapeOK(u.RawPath, "path") /\ unescape(u.RawPath, "path") = u.Path
    THEN u.RawPath
    ELSE IF u.Path = <<"*">> THEN <<"*">>
    ELSE escape(u.Path, "path")

\* URL.EscapedFragment
EscapedFragment(u) ==
    IF u.RawFragment # <<>> /\ validEncoded(u.RawFragment, "fragment")
       /\ unescapeOK(u.RawFragment, "fragment")
       /\ unescape(u.RawFragment, "fragment") = u.Fragment
    THEN u.RawFragment
    ELSE escape(u.Fragment, "fragment")

\* URL.String, with path == u.EscapedPath()
StringWithPath(u, path) ==
    LET scheme == IF u.Scheme # <<>> THEN u.Scheme \o <<":">> ELSE <<>>
        slashes == IF (u.Scheme # <<>> \/ u.Host # <<>>)
                      /\ ~(u.OmitHost /\ u.Host = <<>>)
                      /\ (u.Host # <<>> \/ u.Path # <<>>)
                   THEN <<"/", "/">> ELSE <<>>
        host == escape(u.Host, "host")
        sep == IF path # <<>> /\ path[1] # "/" /\ u.Host # <<>> THEN <<"/">> ELSE <<>>
        dot == IF u.Scheme = <<>> /\ u.Host = <<>> /\ Contains(CutBefore(path, "/"), ":")
               THEN <<".", "/">> ELSE <<>>
        query == IF u.ForceQuery \/ u.RawQuery # <<>> THEN <<"?">> \o u.RawQuery ELSE <<>>
        frag == IF u.Fragment # <<>> THEN <<"#">> \o EscapedFragment(u) ELSE <<>>
    IN  (IF u.Opaque # <<>> THEN scheme \o u.Opaque
         ELSE scheme \o slashes \o host \o sep \o dot \o path)
        \o query \o frag

\* URL.String
String(u) == StringWithPath(u, EscapedPath(u))

\* the model's characters in byte order, for sort.Strings
ByteOrder ==
    <<"\t", "\n", " ", "!", "\"", "#", "$", "%", "&", "'", "(", ")", "*", "+", ",", "-",
      ".", "/", "0", "1", "2", "3", "4", "5", "6", "7", "8", "9", ":", ";", "<", "=",
      ">", "?", "@", "A", "B", "C", "D", "E", "F", "S", "T", "[", "]", "_", "a", "b",
      "c", "d", "e", "f", "g", "h", "i", "j", "k", "l", "m", "n", "o", "p", "q", "r", "s",
      "t", "u", "v", "w", "x", "y", "z", "~">>

Ord(c) == Index(ByteOrder, c)

\* a < b for Go strings
RECURSIVE StrLess(_, _)
StrLess(a, b) ==
    IF b = <<>> THEN FALSE
    ELSE IF a = <<>> THEN TRUE
    ELSE IF Head(a) = Head(b) THEN StrLess(Tail(a), Tail(b))
    ELSE Ord(Head(a)) < Ord(Head(b))

\* the keys of a url.Values in sorted order (sort.Strings in Values.Encode)
RECURSIVE SortedKeys(_)
SortedKeys(keys) ==
    IF keys = {} THEN <<>>
    ELSE LET k == CHOOSE m \in keys : \A o \in keys \ {m} : StrLess(m, o)
         IN  <<k>> \o SortedKeys(keys \ {k})

\* url.QueryUnescape and url.QueryEscape
QueryUnescapeOK(s) == unescapeOK(s, "query")
QueryUnescape(s) == unescape(s, "query")
QueryEscape(s) == escape(s, "query")

\* url.parseQuery: a url.Values is a function from keys to the sequence of values;
\* a pair that holds ";" or an invalid escape is an error, which Query() drops
RECURSIVE parseQuery(_, _)
parseQuery(m, pairs) ==
    IF pairs = <<>> THEN m
    ELSE LET kv == Head(pairs)
             key == CutBefore(kv, "=")
             value == CutAfter(kv, "=")
         IN  IF Contains(kv, ";") \/ kv = <<>> THEN parseQuery(m, Tail(pairs))
             ELSE IF ~QueryUnescapeOK(key) \/ ~QueryUnescapeOK(value)
             THEN parseQuery(m, Tail(pairs))
             ELSE LET k == QueryUnescape(key)
                      v == QueryUnescape(value)
                  IN  parseQuery(IF k \in DOMAIN m
                                 THEN [m EXCEPT ![k] = Append(@, v)]
                                 ELSE m @@ (k :> <<v>>),
                                 Tail(pairs))

EmptyValues == [k \in {} |-> <<>>]

\* URL.Query
Query(u) == parseQuery(EmptyValues, Split(u.RawQuery, "&"))

\* Values.Del
Del(q, key) == [k \in DOMAIN q \ {key} |-> q[k]]

\* Values.Encode: keys sorted, each value of a key in its order, "k=v" joined by "&"
RECURSIVE EncodeKey(_, _)
EncodeKey(k, vs) ==
    IF vs = <<>> THEN <<>>
    ELSE <<QueryEscape(k) \o <<"=">> \o QueryEscape(Head(vs))>> \o EncodeKey(k, Tail(vs))

RECURSIVE EncodeKeys(_, _)
EncodeKeys(q, keys) ==
    IF keys = <<>> THEN <<>>
    ELSE EncodeKey(Head(keys), q[Head(keys)]) \o EncodeKeys(q, Tail(keys))

Encode(q) == Join(EncodeKeys(q, SortedKeys(DOMAIN q)), <<"&">>)

\* ------------------------------------------------------------------------
\* Global config (init)
\* ------------------------------------------------------------------------

\* HYDRA_SIGN_PREFIX, here "s://h/g?"
hydraSignPrefix == <<"s", ":", "/", "/", "h", "/", "g", "?">>

\* BULK_S3_PREFIX, here "s://n/"
bulkS3Prefix == <<"s", ":", "/", "/", "n", "/">>

\* ------------------------------------------------------------------------
\* URL helper
\* ------------------------------------------------------------------------

TAG == <<"t", "a", "g">>
TAGGING == <<"t", "a", "g", "g", "i", "n", "g">>

\* removeTagParams with the URL serialized again whether or not a key was found
removeTagParamsAlwaysSerialized(rawURL, u, q) ==
    [url |-> String([u EXCEPT !.RawQuery = Encode(Del(Del(q, TAG), TAGGING))]),
     changed |-> TAG \in DOMAIN q \/ TAGGING \in DOMAIN q]

\* removeTagParams with one key removed per call
removeTagParamsOneKey(rawURL, u, q) ==
    IF TAG \notin DOMAIN q /\ TAGGING \notin DOMAIN q
    THEN [url |-> rawURL, changed |-> FALSE]
    ELSE [url |-> String([u EXCEPT !.RawQuery =
                     Encode(IF TAG \in DOMAIN q THEN Del(q, TAG) ELSE Del(q, TAGGING))]),
          changed |-> TRUE]

\* removeTagParamsFromURL after url.Parse returned u and u.Query() returned q
removeTagParams(rawURL, u, q) ==
    IF TAG \notin DOMAIN q /\ TAGGING \notin DOMAIN q
    THEN [url |-> rawURL, changed |-> FALSE]
    ELSE [url |-> String([u EXCEPT !.RawQuery = Encode(Del(Del(q, TAG), TAGGING))]),
          changed |-> TRUE]

\* removeTagParamsFromURL after url.Parse returned u
removeTagParamsParsed(rawURL, u) ==
    IF rawURL = <<>> THEN [url |-> rawURL, changed |-> FALSE]
    ELSE IF u.err THEN [url |-> rawURL, changed |-> FALSE]
    ELSE removeTagParams(rawURL, u, Query(u))

\* removeTagParamsFromURL: [url, changed]
removeTagParamsFromURL(rawURL) == removeTagParamsParsed(rawURL, Parse(rawURL))

\* normalizeBulkArchiveURL after strings.Split returned parts
normalizeFilename(rawURL, parts) ==
    IF parts[Len(parts)] = <<>> THEN rawURL
    ELSE TrimRight(bulkS3Prefix, "/") \o <<"/">> \o parts[Len(parts)]

\* normalizeBulkArchiveURL after url.Parse returned u
normalizeParsed(rawURL, u) ==
    IF bulkS3Prefix = <<>> \/ rawURL = <<>> THEN rawURL
    ELSE IF u.err THEN rawURL
    ELSE normalizeFilename(rawURL, Split(Trim(u.Path, "/"), "/"))

\* normalizeBulkArchiveURL
normalizeBulkArchiveURL(rawURL) == normalizeParsed(rawURL, Parse(rawURL))

\* ------------------------------------------------------------------------
\* package encoding/json
\* ------------------------------------------------------------------------

\* A JSON text is its tree of tokens: a value is a record with the kind t and, by
\* kind, the string s, the number (hi * 2^27 + lo, a non-negative integer literal),
\* the boolean b, the array items, or the object members <<key, value>> in the
\* order of the text (a key may occur twice).
Two26 == 2 ^ 26
Two27 == 2 ^ 27

JBlank == [t |-> "null", s |-> <<>>, hi |-> 0, lo |-> 0, b |-> FALSE, items |-> <<>>, members |-> <<>>]
JNull == JBlank
JStr(str) == [JBlank EXCEPT !.t = "str", !.s = str]
JNum(h, l) == [JBlank EXCEPT !.t = "num", !.hi = h, !.lo = l]
JBool(v) == [JBlank EXCEPT !.t = "bool", !.b = v]
JArr(vs) == [JBlank EXCEPT !.t = "arr", !.items = vs]
JObj(ms) == [JBlank EXCEPT !.t = "obj", !.members = ms]

\* the object keys of the model in sorted order (encoding/json sorts map keys)
JSONKeys == <<"id", "name", "partner_pos_attach_files">>

KeyIndex(k) == CHOOSE i \in 1..Len(JSONKeys) : JSONKeys[i] = k

\* strconv.ParseFloat(literal, 64) of an integer literal below 2^54: integers from
\* 2^53 on are rounded to the nearest even integer, ties to the even mantissa
Float64(v) ==
    IF v.hi < Two26 \/ v.lo % 2 = 0 THEN v
    ELSE LET l == IF (v.lo + 1) % 4 = 0 THEN v.lo + 1 ELSE v.lo - 1
         IN  IF l = Two27 THEN [v EXCEPT !.hi = v.hi + 1, !.lo = 0] ELSE [v EXCEPT !.lo = l]

\* the last member of ms with key k (a repeated key overwrites the map entry)
LastMember(ms, k) ==
    ms[CHOOSE i \in 1..Len(ms) : ms[i][1] = k /\ \A j \in (i + 1)..Len(ms) : ms[j][1] # k][2]

\* The Go value json.Unmarshal stores in an interface{}: a number is a float64, an
\* object a map[string]interface{} (a function from its keys), an array a slice.
\* A nested map is kept as the members json.Marshal writes for it: sorted keys.
RECURSIVE FromJSON(_)
FromJSON(v) ==
    CASE v.t = "num" -> Float64(v)
      [] v.t = "arr" -> [v EXCEPT !.items = [i \in 1..Len(v.items) |-> FromJSON(v.items[i])]]
      [] v.t = "obj" ->
            LET keys == {v.members[i][1] : i \in 1..Len(v.members)}
                sorted == SelectSeq(JSONKeys, LAMBDA k : k \in keys)
            IN  [v EXCEPT !.members =
                    [i \in 1..Len(sorted) |->
                        <<sorted[i], FromJSON(LastMember(v.members, sorted[i]))>>]]
      [] OTHER -> v

\* json.Unmarshal([]byte(rawMeta), &metaMap) with metaMap a map[string]interface{}:
\* [err, metaMap]. The text "null" leaves the map nil; any other non-object fails.
Unmarshal(doc) ==
    IF doc.t = "obj"
    THEN [err |-> FALSE,
          metaMap |-> [k \in {doc.members[i][1] : i \in 1..Len(doc.members)} |->
                          FromJSON(LastMember(doc.members, k))]]
    ELSE [err |-> doc.t # "null", metaMap |-> [k \in {} |-> JNull]]

\* json.Marshal(metaMap): the keys in sorted order
Marshal(metaMap) ==
    LET sorted == SelectSeq(JSONKeys, LAMBDA k : k \in DOMAIN metaMap)
    IN  JObj([i \in 1..Len(sorted) |-> <<sorted[i], metaMap[sorted[i]]>>])

\* ------------------------------------------------------------------------
\* Models: sql.NullString and the rows
\* ------------------------------------------------------------------------

\* sql.NullString
Null == [Valid |-> FALSE, String |-> <<>>]
NullString(s) == [Valid |-> TRUE, String |-> s]

\* The text of partner.meta: form "empty" (""), "blank" (white space only),
\* "invalid" (no JSON text) or "doc" (the JSON text doc, white space around it
\* allowed)
MetaText(form, doc) == [form |-> form, doc |-> doc]
MetaDoc(doc) == MetaText("doc", doc)

\* A row of a table: match says whether the columns the migration never writes
\* (archive_type and created_at; the ban flag and the contract end) satisfy the
\* WHERE clause; cols holds the columns the migration reads and writes.
Row(match, cols) == [match |-> match, cols |-> cols]

Tables == {"bulk", "partner", "client"}

ClientCols == {"client_contract_attachment_url", "client_tax_attachment", "client_pks_attachment"}

\* BulkRow, PartnerRow, ClientRow as scanned by SelectContext
Scanned(id, row) == [ID |-> id, cols |-> row.cols]

NoCols == [c \in {} |-> <<>>]

\* what processing a row did: the counters' flags, the UPDATE it issued ("write"),
\* the change it logged in a dry run ("dry") or neither ("none"), and its columns
Outcome(updated, skipped, err, kind, set) ==
    [updated |-> updated, skipped |-> skipped, err |-> err, kind |-> kind, set |-> set]

Skipped == Outcome(FALSE, TRUE, FALSE, "none", NoCols)

\* ------------------------------------------------------------------------
\* BULK: remove tagging in archive_file
\* ------------------------------------------------------------------------

\* the first limit ids above lastID, ascending, whose row satisfies Where
\* (WHERE id > ? AND ... ORDER BY id ASC LIMIT ?)
RECURSIVE Ascending(_)
Ascending(ids) ==
    IF ids = {} THEN <<>>
    ELSE LET first == CHOOSE i \in ids : \A j \in ids : i <= j
         IN  <<first>> \o Ascending(ids \ {first})

SelectIDs(table, lastID, limit, matching) ==
    LET ids == Ascending({i \in matching : i > lastID})
    IN  SubSeq(ids, 1, IF Len(ids) < limit THEN Len(ids) ELSE limit)

\* matching: the ids of the rows that satisfy the rest of the WHERE clause
SelectContext(table, lastID, limit, matching) ==
    LET ids == SelectIDs(table, lastID, limit, matching)
    IN  [i \in 1..Len(ids) |-> Scanned(ids[i], table[ids[i]])]

BulkWhere(row) ==
    /\ row.match
    /\ row.cols.archive_file.Valid
    /\ row.cols.archive_file.String # <<>>

\* fetchBulkBatch with "id >= ?" for "id > ?"
fetchBulkBatchFromCursor(table, lastID, limit) ==
    SelectContext(table, lastID - 1, limit, {i \in DOMAIN table : BulkWhere(table[i])})

\* fetchBulkBatch without the LIMIT
fetchBulkBatchNoLimit(table, lastID, limit) ==
    SelectContext(table, lastID, Cardinality(DOMAIN table), {i \in DOMAIN table : BulkWhere(table[i])})

fetchBulkBatch(table, lastID, limit) == SelectContext(table, lastID, limit, {i \in DOMAIN table : BulkWhere(table[i])})

\* writeBack without the dryRun test: the UPDATE is issued in a dry run too
writeBackIgnoringDryRun(dry, dbOK, set) ==
    IF ~dbOK THEN Outcome(FALSE, FALSE, TRUE, "write", set)
    ELSE Outcome(TRUE, FALSE, FALSE, "write", set)

\* writeBack with a dry-run change reported as updated
writeBackCountingDryRun(dry, dbOK, set) ==
    IF dry THEN Outcome(TRUE, FALSE, FALSE, "dry", set)
    ELSE IF ~dbOK THEN Outcome(FALSE, FALSE, TRUE, "write", set)
    ELSE Outcome(TRUE, FALSE, FALSE, "write", set)

\* what a changed row ends with: the dry-run log line, or the UPDATE and its result
writeBack(dry, dbOK, set) ==
    IF dry THEN Outcome(FALSE, FALSE, FALSE, "dry", set)
    ELSE IF ~dbOK THEN Outcome(FALSE, FALSE, TRUE, "write", set)
    ELSE Outcome(TRUE, FALSE, FALSE, "write", set)

\* bulkRowSanitized with a row written whenever the normalized URL differs from
\* the stored one
bulkRowNormalizingAlways(row, dry, dbOK, raw, san) ==
    IF ~row.cols.archive_file.Valid THEN Skipped
    ELSE IF raw = <<>> THEN Skipped
    ELSE IF ~san.changed /\ normalizeBulkArchiveURL(san.url) = raw THEN Skipped
    ELSE writeBack(dry, dbOK, [c \in {"archive_file"} |-> normalizeBulkArchiveURL(san.url)])

\* bulkRowSanitized with the dry-run line written before the URL is normalized
bulkRowPreviewingEarly(row, dry, dbOK, raw, san) ==
    IF ~row.cols.archive_file.Valid THEN Skipped
    ELSE IF raw = <<>> THEN Skipped
    ELSE IF ~san.changed THEN Skipped
    ELSE IF dry THEN writeBack(dry, dbOK, [c \in {"archive_file"} |-> san.url])
    ELSE writeBack(dry, dbOK, [c \in {"archive_file"} |-> normalizeBulkArchiveURL(san.url)])

\* processBulkRowRemoveTag after removeTagParamsFromURL(raw) returned san
bulkRowSanitized(row, dry, dbOK, raw, san) ==
    IF ~row.cols.archive_file.Valid THEN Skipped
    ELSE IF raw = <<>> THEN Skipped
    ELSE IF ~san.changed THEN Skipped
    ELSE writeBack(dry, dbOK, [c \in {"archive_file"} |-> normalizeBulkArchiveURL(san.url)])

\* processBulkRowRemoveTag; dbOK says whether the UPDATE succeeds
processBulkRowRemoveTag(row, dry, dbOK) ==
    bulkRowSanitized(row, dry, dbOK, TrimSpace(row.cols.archive_file.String),
                     removeTagParamsFromURL(TrimSpace(row.cols.archive_file.String)))

\* ------------------------------------------------------------------------
\* PARTNER: remove tagging in meta.partner_pos_attach_files[]
\* ------------------------------------------------------------------------

PartnerWhere(row) == row.match

fetchPartnerBatch(table, lastID, limit) == SelectContext(table, lastID, limit, {i \in DOMAIN table : PartnerWhere(table[i])})

\* the body of the loop over files: what is appended to newFiles for item, with
\* san == removeTagParamsFromURL(item)
cleanString(item, san) == IF san.changed THEN JStr(san.url) ELSE item

cleanFile(item) ==
    IF item.t # "str" THEN item ELSE cleanString(item, removeTagParamsFromURL(item.s))

\* the loop over files: newFiles
cleanFiles(files) == [i \in 1..Len(files) |-> cleanFile(files[i])]

\* the loop over files: changed
filesChanged(files) ==
    \E i \in 1..Len(files) :
        files[i].t = "str" /\ removeTagParamsFromURL(files[i].s).changed

\* processPartnerRowRemoveTag after json.Unmarshal returned um
partnerRowParsed(meta, dry, dbOK, um) ==
    LET metaMap == um.metaMap
        files == metaMap["partner_pos_attach_files"].items
    IN  IF ~meta.Valid THEN Skipped
        ELSE IF meta.String.form \in {"empty", "blank"} THEN Skipped
        ELSE IF meta.String.form = "invalid" \/ um.err THEN Skipped
        ELSE IF "partner_pos_attach_files" \notin DOMAIN metaMap THEN Skipped
        ELSE IF metaMap["partner_pos_attach_files"].t # "arr" \/ Len(files) = 0 THEN Skipped
        ELSE IF ~filesChanged(files) THEN Skipped
        ELSE writeBack(dry, dbOK,
                 [c \in {"meta"} |->
                     MetaDoc(Marshal([metaMap EXCEPT
                         !["partner_pos_attach_files"] = JArr(cleanFiles(files))]))])

\* processPartnerRowRemoveTag; dbOK says whether the UPDATE succeeds
processPartnerRowRemoveTag(row, dry, dbOK) ==
    partnerRowParsed(row.cols.meta, dry, dbOK, Unmarshal(row.cols.meta.String.doc))

\* ------------------------------------------------------------------------
\* CLIENT: remove ?tag=... from attachment URLs
\* ------------------------------------------------------------------------

\* col LIKE 'prefix%' (NULL LIKE ... is not true)
Like(v, prefix) == v.Valid /\ HasPrefix(v.String, prefix)

ClientWhere(row) ==
    /\ \E c \in ClientCols : Like(row.cols[c], hydraSignPrefix)
    /\ row.match

fetchClientBatch(table, lastID, limit) == SelectContext(table, lastID, limit, {i \in DOMAIN table : ClientWhere(table[i])})

\* handleCol without the test of the signed-URL prefix
handleColAnyPrefix(v, raw, san) ==
    IF ~v.Valid THEN {}
    ELSE IF raw = <<>> THEN {}
    ELSE IF san.changed THEN {san.url} ELSE {}

\* handleCol with only the scheme of the signed-URL prefix compared
handleColSchemeOnly(v, raw, san) ==
    IF ~v.Valid THEN {}
    ELSE IF raw = <<>> THEN {}
    ELSE IF ~HasPrefix(raw, SubSeq(hydraSignPrefix, 1, 4)) THEN {}
    ELSE IF san.changed THEN {san.url} ELSE {}

\* handleCol after removeTagParamsFromURL(raw) returned san: the entry it adds to
\* updates, as a set of at most one value
handleColSanitized(v, raw, san) ==
    IF ~v.Valid THEN {}
    ELSE IF raw = <<>> THEN {}
    ELSE IF ~HasPrefix(raw, hydraSignPrefix) THEN {}
    ELSE IF san.changed THEN {san.url} ELSE {}

\* handleCol
handleCol(v) ==
    handleColSanitized(v, TrimSpace(v.String), removeTagParamsFromURL(TrimSpace(v.String)))

\* the updates map after the three handleCol calls, from the entry of each column
collectUpdates(entries) ==
    [c \in {k \in ClientCols : entries[k] # {}} |-> CHOOSE url \in entries[c] : TRUE]

\* processClientRowRemoveTag after the three handleCol calls filled updates
clientRowHandled(dry, dbOK, updates) ==
    IF DOMAIN updates = {} THEN Skipped ELSE writeBack(dry, dbOK, updates)

\* processClientRowRemoveTag; dbOK says whether the UPDATE succeeds
processClientRowRemoveTag(row, dry, dbOK) ==
    clientRowHandled(dry, dbOK, collectUpdates([c \in ClientCols |-> handleCol(row.cols[c])]))

\* UPDATE ... SET col = ?, ... WHERE id = ? (updateBulkArchiveFile,
\* updatePartnerMeta, applyClientUpdates): the named columns of the row with that
\* id, when there is one, and no other row
ExecUpdate(table, id, set) ==
    IF id \in DOMAIN table
    THEN [table EXCEPT ![id].cols =
            [c \in DOMAIN @ |-> IF c \in DOMAIN set THEN NullString(set[c]) ELSE @[c]]]
    ELSE table

\* ------------------------------------------------------------------------
\* Table contents the model starts from
\* ------------------------------------------------------------------------

\* "s://h/g?" is hydraSignPrefix, "s://n" the storage prefix, "s://o" another host
Old == <<"s", ":", "/", "/", "o", "/">>
TagIs1 == <<"t", "a", "g", "=", "1">>
TaggingIs2 == <<"t", "a", "g", "g", "i", "n", "g", "=", "2">>
AIs1 == <<"a", "=", "1">>
BadPair == <<"b", "=", "%", "z", "z">>

BulkRowOf(match, v) == Row(match, [c \in {"archive_file"} |-> v])

BulkSamples ==
    << \* s://o/d/f?tag=1
       BulkRowOf(TRUE, NullString(Old \o <<"d", "/", "f", "?">> \o TagIs1)),
       \* " S://o/d/f?b=1&tagging=2&a=1\n" : white space around it, upper-case scheme
       BulkRowOf(TRUE, NullString(<<" ", "S", ":", "/", "/", "o", "/", "d", "/", "f", "?", "b", "=", "1", "&">>
                                  \o TaggingIs2 \o <<"&">> \o AIs1 \o <<"\n">>)),
       \* s://o/d/f%3Ftag=1?tagging=2 : an escaped "?" in the file name
       BulkRowOf(TRUE, NullString(Old \o <<"d", "/", "f", "%", "3", "F">> \o TagIs1 \o <<"?">> \o TaggingIs2)),
       \* s://n/f : clean and canonical
       BulkRowOf(TRUE, NullString(<<"s", ":", "/", "/", "n", "/", "f">>)),
       \* a row of another archive_type
       BulkRowOf(FALSE, NullString(Old \o <<"f", "?">> \o TagIs1)),
       \* s://o/f?tag=%zz : the tag pair has an invalid escape
       BulkRowOf(TRUE, NullString(Old \o <<"f", "?", "t", "a", "g", "=", "%", "z", "z">>)),
       \* white space only
       BulkRowOf(TRUE, NullString(<<" ", " ">>)),
       \* s://o/d/?tag=1 : the path ends with a slash
       BulkRowOf(TRUE, NullString(Old \o <<"d", "/", "?">> \o TagIs1)),
       \* NULL
       BulkRowOf(TRUE, Null),
       \* s://o/d/g?a=1 : no tag, not under the storage prefix
       BulkRowOf(TRUE, NullString(Old \o <<"d", "/", "g", "?">> \o AIs1)) >>

PartnerRowOf(match, v) == Row(match, [c \in {"meta"} |-> v])

H == <<"s", ":", "/", "/", "h", "/">>
Files(vs) == <<"partner_pos_attach_files", JArr(vs)>>

PartnerSamples ==
    << \* {"name":"x","partner_pos_attach_files":["s://h/p?tag=1",42,"s://h/q"]}
       PartnerRowOf(TRUE, NullString(MetaDoc(JObj(<<
           <<"name", JStr(<<"x">>)>>,
           Files(<<JStr(H \o <<"p", "?">> \o TagIs1), JNum(0, 42), JStr(H \o <<"q">>)>>) >>)))),
       \* NULL
       PartnerRowOf(TRUE, Null),
       \* {"partner_pos_attach_files":["s://h/p?tagging=2",9007199254740993,null],"id":5}
       PartnerRowOf(TRUE, NullString(MetaDoc(JObj(<<
           Files(<<JStr(H \o <<"p", "?">> \o TaggingIs2), JNum(Two26, 1), JNull>>),
           <<"id", JNum(0, 5)>> >>)))),
       \* not JSON
       PartnerRowOf(TRUE, NullString(MetaText("invalid", JNull))),
       \* {"partner_pos_attach_files":["s://h/q"],"id":7} : nothing to remove
       PartnerRowOf(TRUE, NullString(MetaDoc(JObj(<<
           Files(<<JStr(H \o <<"q">>)>>), <<"id", JNum(0, 7)>> >>)))),
       \* a banned partner
       PartnerRowOf(FALSE, NullString(MetaDoc(JObj(<<
           Files(<<JStr(H \o <<"p", "?">> \o TagIs1)>>) >>)))),
       \* {"partner_pos_attach_files":["s://h/p?a=1&tag=1",true],"name":"x","name":"b"}
       PartnerRowOf(TRUE, NullString(MetaDoc(JObj(<<
           Files(<<JStr(H \o <<"p", "?">> \o AIs1 \o <<"&">> \o TagIs1), JBool(TRUE)>>),
           <<"name", JStr(<<"x">>)>>, <<"name", JStr(<<"b">>)>> >>)))),
       \* white space only
       PartnerRowOf(TRUE, NullString(MetaText("blank", JNull))),
       \* {"partner_pos_attach_files":"s://h/p?tag=1"} : not a list
       PartnerRowOf(TRUE, NullString(MetaDoc(JObj(<<
           <<"partner_pos_attach_files", JStr(H \o <<"p", "?">> \o TagIs1)>> >>)))),
       \* {"partner_pos_attach_files":["s://h o/p?tag=1","s://h/p?tag=1&tagging=2"]} :
       \* the first entry does not parse
       PartnerRowOf(TRUE, NullString(MetaDoc(JObj(<<
           Files(<<JStr(<<"s", ":", "/", "/", "h", " ", "o", "/", "p", "?">> \o TagIs1),
                   JStr(H \o <<"p", "?">> \o TagIs1 \o <<"&">> \o TaggingIs2)>>) >>)))) >>

ClientRowOf(match, contract, tax, pks) ==
    Row(match, [c \in ClientCols |->
        CASE c = "client_contract_attachment_url" -> contract
          [] c = "client_tax_attachment" -> tax
          [] OTHER -> pks])

ClientSamples ==
    << \* two signed URLs with tag parameters, one URL of another host
       ClientRowOf(TRUE, NullString(hydraSignPrefix \o TagIs1 \o <<"&">> \o AIs1),
                         NullString(hydraSignPrefix \o <<"b", "=", "1", "&">> \o TaggingIs2),
                         NullString(Old \o <<"f", "?">> \o TagIs1)),
       \* a signed URL without tag
       ClientRowOf(TRUE, NullString(hydraSignPrefix \o AIs1), Null, NullString(<<>>)),
       \* a signed URL after a blank, a signed URL, a blank column
       ClientRowOf(TRUE, NullString(<<" ">> \o hydraSignPrefix \o TagIs1),
                         NullString(hydraSignPrefix \o TagIs1),
                         NullString(<<" ">>)),
       \* a banned client
       ClientRowOf(FALSE, NullString(hydraSignPrefix \o TagIs1), Null, Null),
       \* no column with the signed-URL prefix
       ClientRowOf(TRUE, NullString(Old \o <<"f", "?">> \o TagIs1), Null, Null),
       \* a tag pair with an invalid escape; a tag and another invalid pair
       ClientRowOf(TRUE, NullString(hydraSignPrefix \o <<"t", "a", "g", "=", "%", "z", "z">>),
                         Null,
                         NullString(hydraSignPrefix \o TagIs1 \o <<"&">> \o BadPair)),
       \* all three columns
       ClientRowOf(TRUE, NullString(hydraSignPrefix \o TagIs1),
                         NullString(hydraSignPrefix \o TaggingIs2),
                         NullString(hydraSignPrefix \o TagIs1 \o <<"&">> \o TaggingIs2)),
       \* one column
       ClientRowOf(TRUE, Null, Null, NullString(hydraSignPrefix \o AIs1 \o <<"&">> \o TagIs1)),
       \* a signed URL after a blank only: the LIKE filter does not see it
       ClientRowOf(TRUE, NullString(<<" ">> \o hydraSignPrefix \o TagIs1), Null, Null),
       \* a signed URL with both keys, a URL of another host without tag
       ClientRowOf(TRUE, NullString(hydraSignPrefix \o TaggingIs2 \o <<"&">> \o TagIs1),
                         NullString(Old \o <<"f">>),
                         Null) >>

\* rows 1..n of a table hold n consecutive samples, starting with sample number start
Window(samples, start, n) ==
    [i \in 1..n |-> samples[((start + i - 2) % Len(samples)) + 1]]

\* ------------------------------------------------------------------------
\* Main: the run as a state machine
\* ------------------------------------------------------------------------

VARIABLES
    dryRun,        \* DRY_RUN == "1"
    batchSize,     \* loadBatchSizeFromEnv
    db,            \* the store: db[t] maps the ids of table t to its rows
    db0,           \* the store when the first run started
    phase,         \* the migrator main is in: "bulk", "partner", "client"; "finished"
                   \* after the last one, "aborted" after log.Fatalf
    lastID,        \* the running migrator's cursor
    page,          \* the rows of the fetched page not processed yet
    batchNum,
    totalRows,
    totalUpdated,
    totalSkipped,
    summary,       \* the [SUMMARY] line each migrator logged
    fetches,       \* page fetches issued per table in this run
    visited,       \* ids handed to row processing per table in this run, in order
    writes,        \* the UPDATEs issued in this run, in order, each with its outcome
    dryLog,        \* the [DRY-RUN] lines logged in this run
    errLog,        \* the per-row [ERROR] lines logged in this run
    failBudget,    \* how many more UPDATEs the store may refuse
    runs,          \* how many times the process was killed and started again
    prevClean,     \* the previous run finished and none of its UPDATEs failed
    fatal,         \* the migrator whose failure main reported with log.Fatalf, or "none"
    rawURL,        \* the string a URL helper is applied to on its own (SpecURL)
    result,        \* what the helper returned for rawURL
    inserted,      \* the rows another writer inserted during the run (SpecInsert)
    preview        \* the [DRY-RUN] lines of the dry run before this live run (SpecPreview)

vars ==
    <<dryRun, batchSize, db, db0, phase, lastID, page, batchNum, totalRows, totalUpdated,
      totalSkipped, summary, fetches, visited, writes, dryLog, errLog, failBudget, runs,
      prevClean, fatal, rawURL, result, inserted, preview>>

NoSummary == [logged |-> FALSE, totalRows |-> 0, totalUpdated |-> 0, totalSkipped |-> 0]

\* the state of a process that has just started: main is about to call
\* migrateBulkRemoveTag, whose locals are zero
Started ==
    /\ phase = "bulk"
    /\ lastID = 0
    /\ page = <<>>
    /\ batchNum = 0
    /\ totalRows = 0
    /\ totalUpdated = 0
    /\ totalSkipped = 0
    /\ summary = [t \in Tables |-> NoSummary]
    /\ fetches = [t \in Tables |-> 0]
    /\ visited = [t \in Tables |-> <<>>]
    /\ writes = <<>>
    /\ dryLog = <<>>
    /\ errLog = <<>>
    /\ fatal = "none"

\* no URL helper has been applied on its own
NoResult == [op |-> "none", url |-> <<>>, changed |-> FALSE]

InitStores ==
    {[bulk |-> Window(BulkSamples, start, n),
      partner |-> Window(PartnerSamples, start, n),
      client |-> Window(ClientSamples, start, n)] :
        start \in 1..Len(BulkSamples), n \in 0..MaxRows}

Init ==
    /\ dryRun \in BOOLEAN
    /\ batchSize \in 1..MaxBatch
    /\ db \in InitStores
    /\ db0 = db
    /\ Started
    /\ failBudget = MaxWriteFailures
    /\ runs = 0
    /\ prevClean = FALSE
    /\ rawURL = <<>>
    /\ result = NoResult
    /\ inserted = <<>>
    /\ preview = <<>>

\* MigrateFetch with the fetch error only logged: the migrator ends as on an empty
\* page and main goes on to the next one
MigrateFetchIgnoringError(t, fetchOK, rows, next) ==
    /\ fetches' = [fetches EXCEPT ![t] = @ + 1]
    /\ IF ~fetchOK \/ rows = <<>>
       THEN /\ summary' = [summary EXCEPT ![t] =
                             [logged |-> fetchOK, totalRows |-> totalRows,
                              totalUpdated |-> totalUpdated, totalSkipped |-> totalSkipped]]
            /\ fatal' = IF fetchOK THEN fatal ELSE t
            /\ phase' = next
            /\ lastID' = 0
            /\ batchNum' = 0
            /\ totalRows' = 0
            /\ totalUpdated' = 0
            /\ totalSkipped' = 0
            /\ page' = <<>>
       ELSE /\ batchNum' = batchNum + 1
            /\ page' = rows
            /\ UNCHANGED <<phase, lastID, totalRows, totalUpdated, totalSkipped, summary, fatal>>
    /\ UNCHANGED <<dryRun, batchSize, db, db0, visited, writes, dryLog, errLog, failBudget,
                   runs, prevClean, rawURL, result, inserted, preview>>

\* MigrateFetch with the loop ended after a page shorter than the batch size
MigrateFetchEndingOnShortPage(t, fetchOK, rows, next) ==
    /\ fetches' = [fetches EXCEPT ![t] = @ + 1]
    /\ IF ~fetchOK
       THEN /\ phase' = "aborted"
            /\ fatal' = t
            /\ UNCHANGED <<lastID, page, batchNum, totalRows, totalUpdated, totalSkipped, summary>>
       ELSE IF rows = <<>> \/ totalRows % batchSize # 0
       THEN /\ summary' = [summary EXCEPT ![t] =
                             [logged |-> TRUE, totalRows |-> totalRows,
                              totalUpdated |-> totalUpdated, totalSkipped |-> totalSkipped]]
            /\ phase' = next
            /\ lastID' = 0
            /\ batchNum' = 0
            /\ totalRows' = 0
            /\ totalUpdated' = 0
            /\ totalSkipped' = 0
            /\ page' = <<>>
            /\ UNCHANGED fatal
       ELSE /\ batchNum' = batchNum + 1
            /\ page' = rows
            /\ UNCHANGED <<phase, lastID, totalRows, totalUpdated, totalSkipped, summary, fatal>>
    /\ UNCHANGED <<dryRun, batchSize, db, db0, visited, writes, dryLog, errLog, failBudget,
                   runs, prevClean, rawURL, result, inserted, preview>>

\* the for loop of migrateXRemoveTag up to the rows: the fetch fails (the migrator
\* returns the error and main ends the process with log.Fatalf), or returns no row
\* (the summary is logged and main calls the next migrator), or returns a page
MigrateFetch(t, fetchOK, rows, next) ==
    /\ fetches' = [fetches EXCEPT ![t] = @ + 1]
    /\ IF ~fetchOK
       THEN /\ phase' = "aborted"
            /\ fatal' = t
            /\ UNCHANGED <<lastID, page, batchNum, totalRows, totalUpdated, totalSkipped, summary>>
       ELSE IF rows = <<>>
       THEN /\ summary' = [summary EXCEPT ![t] =
                             [logged |-> TRUE, totalRows |-> totalRows,
                              totalUpdated |-> totalUpdated, totalSkipped |-> totalSkipped]]
            /\ phase' = next
            /\ lastID' = 0
            /\ batchNum' = 0
            /\ totalRows' = 0
            /\ totalUpdated' = 0
            /\ totalSkipped' = 0
            /\ page' = <<>>
            /\ UNCHANGED fatal
       ELSE /\ batchNum' = batchNum + 1
            /\ page' = rows
            /\ UNCHANGED <<phase, lastID, totalRows, totalUpdated, totalSkipped, summary, fatal>>
    /\ UNCHANGED <<dryRun, batchSize, db, db0, visited, writes, dryLog, errLog, failBudget,
                   runs, prevClean, rawURL, result, inserted, preview>>

\* MigrateRow with "return err" for "continue": a row error ends the migrator and
\* main ends the process
MigrateRowReturningError(t, out, dbOK) ==
    LET r == Head(page)
    IN  /\ dbOK \/ (out.err /\ failBudget > 0)
        /\ totalRows' = totalRows + 1
        /\ lastID' = r.ID
        /\ visited' = [visited EXCEPT ![t] = Append(@, r.ID)]
        /\ db' = IF out.kind = "write" /\ ~out.err
                 THEN [db EXCEPT ![t] = ExecUpdate(@, r.ID, out.set)]
                 ELSE db
        /\ writes' = IF out.kind = "write"
                     THEN Append(writes, [table |-> t, id |-> r.ID, set |-> out.set, ok |-> ~out.err])
                     ELSE writes
        /\ dryLog' = IF out.kind = "dry"
                     THEN Append(dryLog, [table |-> t, id |-> r.ID, set |-> out.set])
                     ELSE dryLog
        /\ errLog' = IF out.err THEN Append(errLog, [table |-> t, id |-> r.ID]) ELSE errLog
        /\ failBudget' = IF out.err THEN failBudget - 1 ELSE failBudget
        /\ totalUpdated' = IF ~out.err /\ out.updated THEN totalUpdated + 1 ELSE totalUpdated
        /\ totalSkipped' = IF ~out.err /\ out.skipped THEN totalSkipped + 1 ELSE totalSkipped
        /\ page' = IF out.err THEN <<>> ELSE Tail(page)
        /\ phase' = IF out.err THEN "aborted" ELSE phase
        /\ fatal' = IF out.err THEN t ELSE fatal
        /\ UNCHANGED <<dryRun, batchSize, db0, batchNum, summary, fetches, runs, prevClean,
                       rawURL, result, inserted, preview>>

\* MigrateRow with a failed row tried again: the cursor stays where it was and the
\* page is fetched again
MigrateRowRetrying(t, out, dbOK) ==
    LET r == Head(page)
    IN  /\ dbOK \/ (out.err /\ failBudget > 0)
        /\ totalRows' = totalRows + 1
        /\ lastID' = IF out.err THEN lastID ELSE r.ID
        /\ visited' = [visited EXCEPT ![t] = Append(@, r.ID)]
        /\ db' = IF out.kind = "write" /\ ~out.err
                 THEN [db EXCEPT ![t] = ExecUpdate(@, r.ID, out.set)]
                 ELSE db
        /\ writes' = IF out.kind = "write"
                     THEN Append(writes, [table |-> t, id |-> r.ID, set |-> out.set, ok |-> ~out.err])
                     ELSE writes
        /\ dryLog' = IF out.kind = "dry"
                     THEN Append(dryLog, [table |-> t, id |-> r.ID, set |-> out.set])
                     ELSE dryLog
        /\ errLog' = IF out.err THEN Append(errLog, [table |-> t, id |-> r.ID]) ELSE errLog
        /\ failBudget' = IF out.err THEN failBudget - 1 ELSE failBudget
        /\ totalUpdated' = IF ~out.err /\ out.updated THEN totalUpdated + 1 ELSE totalUpdated
        /\ totalSkipped' = IF ~out.err /\ out.skipped THEN totalSkipped + 1 ELSE totalSkipped
        /\ page' = IF out.err THEN <<>> ELSE Tail(page)
        /\ UNCHANGED <<dryRun, batchSize, db0, phase, batchNum, summary, fetches, runs, prevClean,
                       fatal, rawURL, result, inserted, preview>>

\* one iteration of "for _, r := range rows" with the outcome out of processing r;
\* an UPDATE fails only when one is issued, and only while the store may refuse
MigrateRow(t, out, dbOK) ==
    LET r == Head(page)
    IN  /\ dbOK \/ (out.err /\ failBudget > 0)
        /\ totalRows' = totalRows + 1
        /\ lastID' = r.ID
        /\ visited' = [visited EXCEPT ![t] = Append(@, r.ID)]
        /\ db' = IF out.kind = "write" /\ ~out.err
                 THEN [db EXCEPT ![t] = ExecUpdate(@, r.ID, out.set)]
                 ELSE db
        /\ writes' = IF out.kind = "write"
                     THEN Append(writes, [table |-> t, id |-> r.ID, set |-> out.set, ok |-> ~out.err])
                     ELSE writes
        /\ dryLog' = IF out.kind = "dry"
                     THEN Append(dryLog, [table |-> t, id |-> r.ID, set |-> out.set])
                     ELSE dryLog
        /\ errLog' = IF out.err THEN Append(errLog, [table |-> t, id |-> r.ID]) ELSE errLog
        /\ failBudget' = IF out.err THEN failBudget - 1 ELSE failBudget
        /\ totalUpdated' = IF ~out.err /\ out.updated THEN totalUpdated + 1 ELSE totalUpdated
        /\ totalSkipped' = IF ~out.err /\ out.skipped THEN totalSkipped + 1 ELSE totalSkipped
        /\ page' = Tail(page)
        /\ UNCHANGED <<dryRun, batchSize, db0, phase, batchNum, summary, fetches, runs, prevClean,
                       fatal, rawURL, result, inserted, preview>>

FetchBulk ==
    /\ phase = "bulk"
    /\ page = <<>>
    /\ \E fetchOK \in BOOLEAN :
          MigrateFetch("bulk", fetchOK, fetchBulkBatch(db.bulk, lastID, batchSize), "partner")

ProcessBulkRow ==
    /\ phase = "bulk"
    /\ page # <<>>
    /\ \E dbOK \in BOOLEAN :
          MigrateRow("bulk", processBulkRowRemoveTag(Head(page), dryRun, dbOK), dbOK)

\* FetchPartner without waiting for the rows of the page to be processed
FetchPartnerMidPage ==
    /\ phase = "partner"
    /\ \E fetchOK \in BOOLEAN :
          MigrateFetch("partner", fetchOK, fetchPartnerBatch(db.partner, lastID, batchSize), "client")

FetchPartner ==
    /\ phase = "partner"
    /\ page = <<>>
    /\ \E fetchOK \in BOOLEAN :
          MigrateFetch("partner", fetchOK, fetchPartnerBatch(db.partner, lastID, batchSize), "client")

ProcessPartnerRow ==
    /\ phase = "partner"
    /\ page # <<>>
    /\ \E dbOK \in BOOLEAN :
          MigrateRow("partner", processPartnerRowRemoveTag(Head(page), dryRun, dbOK), dbOK)

FetchClient ==
    /\ phase = "client"
    /\ page = <<>>
    /\ \E fetchOK \in BOOLEAN :
          MigrateFetch("client", fetchOK, fetchClientBatch(db.client, lastID, batchSize), "finished")

ProcessClientRow ==
    /\ phase = "client"
    /\ page # <<>>
    /\ \E dbOK \in BOOLEAN :
          MigrateRow("client", processClientRowRemoveTag(Head(page), dryRun, dbOK), dbOK)

Next ==
    \/ FetchBulk
    \/ ProcessBulkRow
    \/ FetchPartner
    \/ ProcessPartnerRow
    \/ FetchClient
    \/ ProcessClientRow

Spec == Init /\ [][Next]_vars

\* The process is killed (or has ended) and is started again: nothing of a run
\* outlives it but the store.
Restart ==
    /\ runs < MaxRestarts
    /\ runs' = runs + 1
    /\ prevClean' = (phase = "finished" /\ \A i \in 1..Len(writes) : writes[i].ok)
    /\ phase' = "bulk"
    /\ lastID' = 0
    /\ page' = <<>>
    /\ batchNum' = 0
    /\ totalRows' = 0
    /\ totalUpdated' = 0
    /\ totalSkipped' = 0
    /\ summary' = [t \in Tables |-> NoSummary]
    /\ fetches' = [t \in Tables |-> 0]
    /\ visited' = [t \in Tables |-> <<>>]
    /\ writes' = <<>>
    /\ dryLog' = <<>>
    /\ errLog' = <<>>
    /\ fatal' = "none"
    /\ UNCHANGED <<dryRun, batchSize, db, db0, failBudget, rawURL, result, inserted, preview>>

InitRestart ==
    /\ dryRun = FALSE
    /\ batchSize \in 1..MaxBatch
    /\ db \in InitStores
    /\ db0 = db
    /\ Started
    /\ failBudget = 0
    /\ runs = 0
    /\ prevClean = FALSE
    /\ rawURL = <<>>
    /\ result = NoResult
    /\ inserted = <<>>
    /\ preview = <<>>

NextRestart == Next \/ Restart

SpecRestart == InitRestart /\ [][NextRestart]_vars

\* A live run in which the store may refuse every UPDATE. The process is the only
\* thread and nothing but the database makes it wait, so it goes on taking steps
\* until it has ended.
InitLive ==
    /\ dryRun = FALSE
    /\ batchSize \in 1..MaxBatch
    /\ db \in InitStores
    /\ db0 = db
    /\ Started
    /\ failBudget = 3 * MaxRows
    /\ runs = 0
    /\ prevClean = FALSE
    /\ rawURL = <<>>
    /\ result = NoResult
    /\ inserted = <<>>
    /\ preview = <<>>

\* the range loop goes on to the next row of the page
NextRow == phase \in Tables /\ page # <<>> /\ page' = Tail(page)

\* the for loop goes on to the next fetch
NextPage == FetchBulk \/ FetchPartner \/ FetchClient

SpecLive == InitLive /\ [][Next]_vars /\ WF_page(NextRow) /\ WF_vars(NextPage)

\* ------------------------------------------------------------------------
\* Another writer inserts a row while the migration runs
\* ------------------------------------------------------------------------

\* The columns of table t
ColsOf(t) ==
    CASE t = "bulk" -> {"archive_file"}
      [] t = "partner" -> {"meta"}
      [] OTHER -> ClientCols

\* An id of table t that no row has: no SELECT returns it
NoRow(t) == Row(FALSE, [c \in ColsOf(t) |-> Null])

\* the row the other writer inserts: it satisfies the filter of its table
InsertedRow(t) ==
    CASE t = "bulk" -> BulkSamples[1]
      [] t = "partner" -> PartnerSamples[1]
      [] OTHER -> ClientSamples[1]

\* the stores whose ids 1..n hold matching rows, but for the ids in gaps
GapStores ==
    {[t \in Tables |-> [i \in 1..n |-> IF i \in gaps THEN NoRow(t) ELSE InsertedRow(t)]] :
        n \in 0..MaxRows, gaps \in SUBSET (1..MaxRows)}

InitInsert ==
    /\ dryRun = FALSE
    /\ batchSize \in 1..MaxBatch
    /\ db \in GapStores
    /\ db0 = db
    /\ Started
    /\ failBudget = 0
    /\ runs = 0
    /\ prevClean = FALSE
    /\ rawURL = <<>>
    /\ result = NoResult
    /\ inserted = <<>>
    /\ preview = <<>>

\* INSERT of a matching row with an unused id above the cursor into the table of
\* the running migrator, once per run. The entry of inserted keeps the cursor and
\* whether the id is above every id fetched so far.
Insert(t, id) ==
    /\ phase = t
    /\ inserted = <<>>
    /\ id > lastID
    /\ id <= Len(db[t]) => db[t][id] = NoRow(t)
    /\ db' = [db EXCEPT ![t] = IF id <= Len(@)
                               THEN [@ EXCEPT ![id] = InsertedRow(t)]
                               ELSE Append(@, InsertedRow(t))]
    /\ inserted' = Append(inserted,
                      [table |-> t, id |-> id, cursor |-> lastID,
                       ahead |-> (page = <<>> \/ id > page[Len(page)].ID)])
    /\ UNCHANGED <<dryRun, batchSize, db0, phase, lastID, page, batchNum, totalRows,
                   totalUpdated, totalSkipped, summary, fetches, visited, writes, dryLog,
                   errLog, failBudget, runs, prevClean, fatal, rawURL, result, preview>>

InsertRow == \E t \in Tables : \E id \in 1..(Len(db[t]) + 1) : Insert(t, id)

NextInsert == Next \/ InsertRow

SpecInsert == InitInsert /\ [][NextInsert]_vars

\* ------------------------------------------------------------------------
\* A dry run first, then the live run
\* ------------------------------------------------------------------------

InitPreview ==
    /\ dryRun = TRUE
    /\ batchSize \in 1..MaxBatch
    /\ db \in InitStores
    /\ db0 = db
    /\ Started
    /\ failBudget = 0
    /\ runs = 0
    /\ prevClean = FALSE
    /\ rawURL = <<>>
    /\ result = NoResult
    /\ inserted = <<>>
    /\ preview = <<>>

\* the dry run has ended and the program is started again without DRY_RUN, with
\* the same configuration; the operator keeps the log of the dry run
GoLive ==
    /\ dryRun
    /\ phase = "finished"
    /\ dryRun' = FALSE
    /\ preview' = dryLog
    /\ runs' = runs + 1
    /\ phase' = "bulk"
    /\ lastID' = 0
    /\ page' = <<>>
    /\ batchNum' = 0
    /\ totalRows' = 0
    /\ totalUpdated' = 0
    /\ totalSkipped' = 0
    /\ summary' = [t \in Tables |-> NoSummary]
    /\ fetches' = [t \in Tables |-> 0]
    /\ visited' = [t \in Tables |-> <<>>]
    /\ writes' = <<>>
    /\ dryLog' = <<>>
    /\ errLog' = <<>>
    /\ fatal' = "none"
    /\ UNCHANGED <<batchSize, db, db0, failBudget, prevClean, rawURL, result, inserted>>

NextPreview == Next \/ GoLive

SpecPreview == InitPreview /\ [][NextPreview]_vars

\* ------------------------------------------------------------------------
\* The URL helpers on their own
\* ------------------------------------------------------------------------

\* the texts of one query parameter
PairTexts ==
    { TagIs1,
      TaggingIs2,
      AIs1,
      <<"a", "=", "3">>,
      <<"b">>,
      BadPair,
      <<"T", "a", "g", "=", "1">>,
      <<"%", "7", "4", "a", "g", "=", "4">>,
      <<"t", "a", "g", "=", "%", "z", "z">>,
      <<"c", ";", "d", "=", "5">>,
      <<"d", "=", "x", "+", "y", "%", "2", "6", "z">> }

RECURSIVE PairSeqs(_)
PairSeqs(n) ==
    IF n = 0 THEN {<<>>}
    ELSE PairSeqs(n - 1) \cup {Append(q, pair) : q \in PairSeqs(n - 1), pair \in PairTexts}

\* scheme, authority and path
BaseTexts ==
    { <<"s", ":", "/", "/", "h", "/", "p">>,
      <<"S", ":", "/", "/", "h", "/", "p">>,
      <<"s", ":", "/", "/", "h", "/", "p", " ", "f">>,
      <<"/", "p", "/", "f", "%", "3", "F", "x">>,
      <<"s", ":", "/", "/", "h", " ", "/", "p">>,
      <<"s", ":", "/", "/", "h", "/", "%", "z", "z">> }

FragmentTexts == {<<>>, <<"#", "x">>}

\* scheme, authority and path of the URLs whose path matters
PathTexts ==
    { Old \o <<"d", "/", "f">>,
      Old \o <<"d", "/">>,
      <<"s", ":", "/", "/", "o">>,
      Old,
      Old \o <<"/">>,
      Old \o <<"d", "/", "a", "%", "2", "F", "b">>,
      Old \o <<"d", "/", "f", "%", "3", "F">> \o TagIs1,
      Old \o <<"d", "/", "p", "%", "2", "0", "f">>,
      <<"d", "/", "f">>,
      <<"f">>,
      bulkS3Prefix \o <<"f">> }

PathSuffixes == {<<>>, <<"?">> \o TagIs1, <<"?">> \o AIs1 \o <<"#", "x">>}

URLInputs ==
    { base \o (IF q = <<>> THEN <<>> ELSE <<"?">> \o Join(q, <<"&">>)) \o frag :
        base \in BaseTexts, q \in PairSeqs(MaxPairs), frag \in FragmentTexts }
    \cup {base \o suffix : base \in PathTexts, suffix \in PathSuffixes}
    \cup {<<>>, <<":", "p", "?">> \o TagIs1, <<"s", ":", "/", "/", "h", "/", "p", "?">>}

EmptyStore == [t \in Tables |-> <<>>]

InitURL ==
    /\ rawURL \in URLInputs
    /\ result = NoResult
    /\ inserted = <<>>
    /\ preview = <<>>
    /\ dryRun = TRUE
    /\ batchSize = 1
    /\ db = EmptyStore
    /\ db0 = db
    /\ Started
    /\ failBudget = 0
    /\ runs = 0
    /\ prevClean = FALSE

ApplySanitizer ==
    /\ result.op = "none"
    /\ result' = [op |-> "sanitize",
                  url |-> removeTagParamsFromURL(rawURL).url,
                  changed |-> removeTagParamsFromURL(rawURL).changed]
    /\ UNCHANGED <<dryRun, batchSize, db, db0, phase, lastID, page, batchNum, totalRows,
                   totalUpdated, totalSkipped, summary, fetches, visited, writes, dryLog,
                   errLog, failBudget, runs, prevClean, fatal, rawURL, inserted, preview>>

\* the sanitizer applied to what it returned for rawURL
ApplySanitizerAgain ==
    /\ result.op = "sanitize"
    /\ result' = [op |-> "sanitizeAgain",
                  url |-> removeTagParamsFromURL(result.url).url,
                  changed |-> removeTagParamsFromURL(result.url).changed]
    /\ UNCHANGED <<dryRun, batchSize, db, db0, phase, lastID, page, batchNum, totalRows,
                   totalUpdated, totalSkipped, summary, fetches, visited, writes, dryLog,
                   errLog, failBudget, runs, prevClean, fatal, rawURL, inserted, preview>>

ApplyNormalizer ==
    /\ result.op = "none"
    /\ result' = [op |-> "normalize", url |-> normalizeBulkArchiveURL(rawURL), changed |-> FALSE]
    /\ UNCHANGED <<dryRun, batchSize, db, db0, phase, lastID, page, batchNum, totalRows,
                   totalUpdated, totalSkipped, summary, fetches, visited, writes, dryLog,
                   errLog, failBudget, runs, prevClean, fatal, rawURL, inserted, preview>>

NextURL ==
    \/ ApplySanitizer
    \/ ApplySanitizerAgain
    \/ ApplyNormalizer

SpecURL == InitURL /\ [][NextURL]_vars

\* ------------------------------------------------------------------------
\* Properties
\* ------------------------------------------------------------------------

Where(t, row) ==
    CASE t = "bulk" -> BulkWhere(row)
      [] t = "partner" -> PartnerWhere(row)
      [] OTHER -> ClientWhere(row)

\* the ids of the rows of table t that matched its filter when the run started, in
\* ascending order
Matching(t) == Ascending({i \in DOMAIN db0[t] : Where(t, db0[t][i])})

IsPrefix(a, b) == Len(a) <= Len(b) /\ a = SubSeq(b, 1, Len(a))

CeilDiv(k, b) == (k + b - 1) \div b

Indices(seq, t) == {i \in 1..Len(seq) : seq[i].table = t}

\* C1: in a dry run the store never differs from the store the run started with, and
\* no UPDATE is issued, whatever rows would change and whatever the batch size.
DryRunIssuesNoWrite == dryRun => (db = db0 /\ writes = <<>>)

\* a finished dry run that logged a would-be change in each of the three tables
DryRunWitness ==
    /\ dryRun
    /\ phase = "finished"
    /\ \A t \in Tables : Indices(dryLog, t) # {}

\* C2: the ids handed to row processing are, at every moment, the first matching ids
\* in ascending order with none repeated and none left out, and once a migrator has
\* logged its summary they are all of them.
VisitsEachRowOnceAscending ==
    \A t \in Tables :
        /\ IsPrefix(visited[t], Matching(t))
        /\ summary[t].logged => visited[t] = Matching(t)

\* a finished run in which one table took two pages, the second one short, and in
\* another a row that does not match the filter lies between two rows that do
VisitsWitness ==
    /\ phase = "finished"
    /\ batchSize = 2
    /\ \E t \in Tables : visited[t] = <<1, 2, 3>>
    /\ \E t \in Tables : visited[t] = <<1, 3>>

\* C3 as stated: a migrator that reached DONE issued ceil(K/B) page fetches.
FetchCountAsStated ==
    \A t \in Tables :
        summary[t].logged => fetches[t] = CeilDiv(Len(Matching(t)), batchSize)

\* C3, amended: a migrator that reached DONE issued ceil(K/B) fetches that returned
\* rows and one more, the fetch that returned no row: ceil(K/B) + 1 in total.
FetchCount ==
    \A t \in Tables :
        summary[t].logged => fetches[t] = CeilDiv(Len(Matching(t)), batchSize) + 1

\* a finished run with K a multiple of B in one table and not in another
FetchCountWitness ==
    /\ phase = "finished"
    /\ batchSize = 2
    /\ \E t \in Tables : Len(Matching(t)) = 2 /\ fetches[t] = 2
    /\ \E t \in Tables : Len(Matching(t)) = 3 /\ fetches[t] = 3

\* the store holds what the successful UPDATEs of this run set and, for a row whose
\* UPDATE failed, what it held before
WritesPersist ==
    \A i \in 1..Len(writes) :
        LET w == writes[i]
        IN  IF w.ok
            THEN \A c \in DOMAIN w.set : db[w.table][w.id].cols[c] = NullString(w.set[c])
            ELSE db[w.table][w.id] = db0[w.table][w.id]

\* C4: a step in which an UPDATE fails logs the error, leaves the store as it was
\* (the earlier UPDATEs included) and leaves the migrator in its loop with the rest
\* of the page still to process; every row is processed in the end, and the later
\* migrators run.
RowErrorContinues ==
    /\ [](WritesPersist /\ VisitsEachRowOnceAscending)
    /\ [][Len(errLog') > Len(errLog) =>
            /\ errLog'[Len(errLog')] = [table |-> phase, id |-> Head(page).ID]
            /\ ~writes'[Len(writes')].ok
            /\ db' = db
            /\ phase' = phase
            /\ page' = Tail(page)
            /\ fatal' = "none"]_vars

\* a finished live run in which an UPDATE of the bulk migrator failed after an
\* earlier one succeeded, and later UPDATEs, of the same page and of a later
\* migrator, succeeded
RowErrorWitness ==
    /\ phase = "finished"
    /\ batchSize = 3
    /\ \E i, j, k, l \in 1..Len(writes) :
          /\ i < j /\ j < k /\ k < l
          /\ writes[i].table = "bulk" /\ writes[i].ok
          /\ writes[j].table = "bulk" /\ ~writes[j].ok /\ writes[j].id = writes[i].id + 1
          /\ writes[k].table = "bulk" /\ writes[k].ok /\ writes[k].id = writes[j].id + 1
          /\ writes[l].table = "client" /\ writes[l].ok

After(t) ==
    CASE t = "bulk" -> {"partner", "client"}
      [] t = "partner" -> {"client"}
      [] OTHER -> {}

\* C5: once a page fetch has failed the run is over: the migrator logs no summary,
\* no later migrator fetches, processes or writes anything, and no step follows.
FetchFailureAborts ==
    /\ [](fatal # "none" =>
            /\ phase = "aborted"
            /\ page = <<>>
            /\ ~summary[fatal].logged
            /\ \A t \in After(fatal) :
                  /\ fetches[t] = 0
                  /\ visited[t] = <<>>
                  /\ Indices(writes, t) = {}
                  /\ Indices(dryLog, t) = {})
    /\ [][fatal = "none"]_vars

\* the second fetch of the bulk migrator failed after its first page was written
FetchFailureWitness ==
    /\ fatal = "bulk"
    /\ fetches.bulk = 2
    /\ Indices(writes, "bulk") # {}
    /\ \E i \in DOMAIN db.partner : Where("partner", db.partner[i])

\* the row an uninterrupted live run without errors leaves in place of row
LiveRunRow(t, id, row) ==
    LET r == Scanned(id, row)
        out == CASE t = "bulk" -> processBulkRowRemoveTag(r, FALSE, TRUE)
                 [] t = "partner" -> processPartnerRowRemoveTag(r, FALSE, TRUE)
                 [] OTHER -> processClientRowRemoveTag(r, FALSE, TRUE)
    IN  IF Where(t, row) /\ out.kind = "write"
        THEN [row EXCEPT !.cols = [c \in DOMAIN @ |->
                 IF c \in DOMAIN out.set THEN NullString(out.set[c]) ELSE @[c]]]
        ELSE row

\* the store an uninterrupted live run without errors leaves
LiveRun(store) == [t \in Tables |-> [id \in DOMAIN store[t] |-> LiveRunRow(t, id, store[t][id])]]

\* C6 as stated: a live run that completes after any number of killed or completed
\* runs leaves the store as one uninterrupted live run on the first store leaves
\* it, and a complete run after a complete run without errors issues no UPDATE.
RestartIsIdempotent ==
    /\ phase = "finished" => db = LiveRun(db0)
    /\ prevClean => writes = <<>>

\* C7 as stated: in a dry run the updated counter of the summary is the number of
\* would-be writes logged for the table.
DryRunCountsAsStated ==
    dryRun =>
        \A t \in Tables :
            summary[t].logged => summary[t].totalUpdated = Cardinality(Indices(dryLog, t))

\* C7, amended: in a dry run the updated counter stays 0; a would-be write is counted
\* neither as updated nor as skipped, so the number of would-be writes logged for
\* the table is rows seen minus rows skipped.
DryRunCounts ==
    dryRun =>
        \A t \in Tables :
            summary[t].logged =>
                /\ summary[t].totalUpdated = 0
                /\ summary[t].totalRows = Len(visited[t])
                /\ summary[t].totalRows - summary[t].totalSkipped
                     = Cardinality(Indices(dryLog, t))

\* a finished dry run in which a table had would-be writes and skipped rows
DryRunCountsWitness ==
    /\ dryRun
    /\ phase = "finished"
    /\ \E t \in Tables :
          /\ Cardinality(Indices(dryLog, t)) = 2
          /\ summary[t].totalSkipped = 1

\* the sanitized value of an attachment column, and whether the claim's set C
\* holds the column
Sanitized(v) == removeTagParamsFromURL(TrimSpace(v.String))

InC(v) ==
    /\ v.Valid
    /\ TrimSpace(v.String) # <<>>
    /\ HasPrefix(TrimSpace(v.String), hydraSignPrefix)
    /\ Sanitized(v).changed

ValueOf(doc, k) == LastMember(doc.members, k)

KeysOf(doc) == {doc.members[i][1] : i \in 1..Len(doc.members)}

\* what a partner UPDATE keeps of the meta it replaces
PartnerWritesPreserve ==
    \A i \in Indices(writes, "partner") :
        LET old == db0.partner[writes[i].id].cols.meta.String.doc
            new == writes[i].set.meta.doc
            files == ValueOf(old, "partner_pos_attach_files").items
            newFiles == ValueOf(new, "partner_pos_attach_files").items
        IN  /\ Len(newFiles) = Len(files)
            /\ \A n \in 1..Len(files) :
                  newFiles[n] =
                     IF files[n].t = "str" /\ removeTagParamsFromURL(files[n].s).changed
                     THEN JStr(removeTagParamsFromURL(files[n].s).url)
                     ELSE files[n]
            /\ KeysOf(new) = KeysOf(old)
            /\ \A k \in KeysOf(old) \ {"partner_pos_attach_files"} :
                  ValueOf(new, k) = ValueOf(old, k)

HasFileList(meta) ==
    /\ meta.Valid
    /\ meta.String.form = "doc"
    /\ meta.String.doc.t = "obj"
    /\ "partner_pos_attach_files" \in KeysOf(meta.String.doc)
    /\ ValueOf(meta.String.doc, "partner_pos_attach_files").t = "arr"
    /\ ValueOf(meta.String.doc, "partner_pos_attach_files").items # <<>>

\* C9 as stated: the meta written back for a partner row holds a list of the same
\* length, entry i sanitized when it is a string the sanitizer changes and the
\* original entry otherwise, and every other key with its value; no UPDATE is
\* issued for a row none of whose string entries the sanitizer changes.
PartnerMetaPreserved ==
    /\ \A j \in 1..Len(visited.partner) :
          LET meta == db0.partner[visited.partner[j]].cols.meta
          IN  (HasFileList(meta)
               /\ ~filesChanged(ValueOf(meta.String.doc, "partner_pos_attach_files").items))
              => \A i \in Indices(writes, "partner") : writes[i].id # visited.partner[j]
    /\ PartnerWritesPreserve

\* the query parameters of a URL text: what lies between "?" and "#", split at "&",
\* each <<key, value>> percent-decoded where it can be
QueryText(url) == CutAfter(CutBefore(url, "#"), "?")

Decoded(text) == IF QueryUnescapeOK(text) THEN QueryUnescape(text) ELSE text

ParamsOf(url) ==
    LET parts == SelectSeq(Split(QueryText(url), "&"), LAMBDA part : part # <<>>)
    IN  [i \in 1..Len(parts) |->
            <<Decoded(CutBefore(parts[i], "=")), Decoded(CutAfter(parts[i], "="))>>]

ValuesOf(params, k) ==
    LET own == SelectSeq(params, LAMBDA kv : kv[1] = k)
    IN  [i \in 1..Len(own) |-> own[i][2]]

ParamKeys(params) == {params[i][1] : i \in 1..Len(params)}

\* C10 as stated: for a parseable URL whose query holds the key tag or tagging the
\* sanitizer reports a change and returns a URL without these keys, with every
\* other parameter and all its values, and with the same scheme, host and path.
SanitizerKeepsOtherParams ==
    (/\ result.op = "sanitize"
     /\ ~Parse(rawURL).err
     /\ ParamKeys(ParamsOf(rawURL)) \cap {TAG, TAGGING} # {})
    => /\ result.changed
       /\ ParamKeys(ParamsOf(result.url)) \cap {TAG, TAGGING} = {}
       /\ \A k \in ParamKeys(ParamsOf(rawURL)) \ {TAG, TAGGING} :
             ValuesOf(ParamsOf(result.url), k) = ValuesOf(ParamsOf(rawURL), k)
       /\ CutBefore(CutBefore(result.url, "#"), "?") = CutBefore(CutBefore(rawURL, "#"), "?")

HasTagKey(url) == ParamKeys(ParamsOf(url)) \cap {TAG, TAGGING} # {}

\* C11: the sanitizer returns its input unchanged with changed = false when the input
\* is empty, unparsable, or parseable without the query key tag or tagging; it
\* returns changed = true only for a parseable URL that has one of the two keys.
SanitizerNoOp ==
    result.op = "sanitize" =>
        /\ (rawURL = <<>> \/ Parse(rawURL).err \/ ~HasTagKey(rawURL))
              => (result.url = rawURL /\ ~result.changed)
        /\ result.changed => (rawURL # <<>> /\ ~Parse(rawURL).err /\ HasTagKey(rawURL))

\* a parseable URL without the keys that is not in the form String() would give it
\* (upper-case scheme, a malformed pair) came back as it was
SanitizerNoOpWitness ==
    /\ result.op = "sanitize"
    /\ ~Parse(rawURL).err
    /\ HasPrefix(rawURL, <<"S">>)
    /\ Contains(rawURL, "%")
    /\ result.url = rawURL
    /\ ~result.changed

\* C12: the sanitizer applied to its own output returns that output unchanged with
\* changed = false: sanitize(sanitize(u)) = sanitize(u).
SanitizerIdempotent ==
    result.op = "sanitizeAgain" =>
        /\ result.url = removeTagParamsFromURL(rawURL).url
        /\ ~result.changed

\* the second application followed a first one that removed both keys and kept
\* another parameter
SanitizerIdempotentWitness ==
    /\ result.op = "sanitizeAgain"
    /\ TAG \in ParamKeys(ParamsOf(rawURL))
    /\ TAGGING \in ParamKeys(ParamsOf(rawURL))
    /\ removeTagParamsFromURL(rawURL).changed
    /\ result.url # rawURL

\* the last segment of the path of a URL text: what follows the last "/" of the
\* path, the path being what follows the scheme and the authority, up to "?" or "#"
PathText(url) ==
    LET hier == CutBefore(CutBefore(url, "#"), "?")
        colon == Index(hier, ":")
        slash == Index(hier, "/")
        rest == IF colon # 0 /\ (slash = 0 \/ colon < slash)
                THEN SubSeq(hier, colon + 1, Len(hier))
                ELSE hier
    IN  IF HasPrefix(rest, <<"/", "/">>)
        THEN LET afterHost == SubSeq(rest, 3, Len(rest))
             IN  IF Index(afterHost, "/") = 0 THEN <<>>
                 ELSE SubSeq(afterHost, Index(afterHost, "/"), Len(afterHost))
        ELSE rest

FinalSegment(url) ==
    LET path == PathText(url)
    IN  SubSeq(path, LastIndex(path, "/") + 1, Len(path))

\* C13 as stated: the normalizer returns its input unchanged when the input is
\* empty, unparsable or has an empty final path segment (the prefix is never empty),
\* and otherwise the prefix without trailing slash, "/" and the final path segment.
NormalizerKeepsFinalSegment ==
    result.op = "normalize" =>
        result.url =
            IF rawURL = <<>> \/ Parse(rawURL).err \/ FinalSegment(rawURL) = <<>>
            THEN rawURL
            ELSE TrimRight(bulkS3Prefix, "/") \o <<"/">> \o FinalSegment(rawURL)

\* the migrator of table t has fetched, processed, logged or written something
Active(t) ==
    \/ fetches[t] > 0
    \/ visited[t] # <<>>
    \/ Indices(writes, t) # {}
    \/ Indices(dryLog, t) # {}

\* C14: the migrators run in the order bulk, partner, client: the partner migrator
\* does nothing before the bulk migrator has reached DONE, the client migrator
\* nothing before the partner migrator has reached DONE, and a page is fetched only
\* when every row of the page before it has been processed.
MigratorsRunInOrder ==
    /\ [](/\ Active("partner") => summary.bulk.logged
          /\ Active("client") => (summary.bulk.logged /\ summary.partner.logged)
          /\ \A t \in Tables : summary[t].logged => phase \in After(t) \cup {"finished", "aborted"})
    /\ [][\A t \in Tables :
             /\ fetches'[t] > fetches[t] => (phase = t /\ page = <<>>)
             /\ visited'[t] # visited[t] => phase = t]_vars

\* a finished run in which every migrator fetched at least two pages with rows
MigratorsRunInOrderWitness ==
    /\ phase = "finished"
    /\ \A t \in Tables : Len(visited[t]) >= 2 /\ fetches[t] >= 3

\* C15: the bulk migrator writes a row only if the sanitizer reports a change on the
\* trimmed archive_file, and then writes the normalizer's result for the sanitized
\* URL; a row the sanitizer leaves alone is never written, canonical or not; the
\* partner and client migrators write the sanitizer's result as it is.
BulkWritesOnlyOnChange ==
    /\ \A i \in Indices(writes, "bulk") :
          LET v == db0.bulk[writes[i].id].cols.archive_file
          IN  /\ v.Valid
              /\ Sanitized(v).changed
              /\ DOMAIN writes[i].set = {"archive_file"}
              /\ writes[i].set.archive_file = normalizeBulkArchiveURL(Sanitized(v).url)
    /\ \A j \in 1..Len(visited.bulk) :
          LET id == visited.bulk[j]
              v == db0.bulk[id].cols.archive_file
          IN  (~v.Valid \/ ~Sanitized(v).changed)
              => /\ \A i \in Indices(writes, "bulk") : writes[i].id # id
                 /\ db.bulk[id] = db0.bulk[id]
    /\ \A i \in Indices(writes, "client") :
          \A c \in DOMAIN writes[i].set :
              writes[i].set[c] = Sanitized(db0.client[writes[i].id].cols[c]).url
    /\ \A i \in Indices(writes, "partner") :
          LET files == ValueOf(db0.partner[writes[i].id].cols.meta.String.doc,
                               "partner_pos_attach_files").items
              newFiles == ValueOf(writes[i].set.meta.doc, "partner_pos_attach_files").items
          IN  \A n \in 1..Len(files) :
                  files[n].t = "str" =>
                      newFiles[n] = JStr(removeTagParamsFromURL(files[n].s).url)

\* a finished live run that wrote a bulk row, left alone a bulk row that has no tag
\* and is not under the storage prefix, and wrote a client column whose sanitized
\* URL the normalizer would change
BulkWritesWitness ==
    /\ ~dryRun
    /\ phase = "finished"
    /\ \E i \in Indices(writes, "bulk") : writes[i].ok
    /\ \E j \in 1..Len(visited.bulk) :
          LET v == db.bulk[visited.bulk[j]].cols.archive_file
          IN  /\ ~HasTagKey(v.String)
              /\ ~HasPrefix(v.String, bulkS3Prefix)
              /\ v = db0.bulk[visited.bulk[j]].cols.archive_file
    /\ \E i \in Indices(writes, "client") :
          \E c \in DOMAIN writes[i].set :
              normalizeBulkArchiveURL(writes[i].set[c]) # writes[i].set[c]

\* the client attachment columns in cells, as <<id, column>>, are out of the
\* update's reach: they keep their value and are in no UPDATE
ClientColumnsKept(cells) ==
    \A cell \in cells :
        /\ db.client[cell[1]].cols[cell[2]] = db0.client[cell[1]].cols[cell[2]]
        /\ \A i \in Indices(writes, "client") :
              writes[i].id = cell[1] => cell[2] \notin DOMAIN writes[i].set

ClientCells == {<<id, c>> : id \in DOMAIN db0.client, c \in ClientCols}

NullOrBlank(v) == ~v.Valid \/ TrimSpace(v.String) = <<>>

StartsWithPrefix(v) == HasPrefix(v.String, hydraSignPrefix)

TrimmedStartsWithPrefix(v) == HasPrefix(TrimSpace(v.String), hydraSignPrefix)

\* C16 as stated: the client migrator never modifies a column that is null, blank or
\* does not start with the signed-URL prefix.
ClientSkipsIneligibleAsStated ==
    ClientColumnsKept({cell \in ClientCells :
        LET v == db0.client[cell[1]].cols[cell[2]]
        IN  NullOrBlank(v) \/ ~StartsWithPrefix(v)})

\* C16, amended: the client migrator never modifies a column that is null, blank or,
\* with the white space around it removed, does not start with the signed-URL
\* prefix, whatever it contains and whatever happens to the row's other columns.
ClientSkipsIneligible ==
    ClientColumnsKept({cell \in ClientCells :
        LET v == db0.client[cell[1]].cols[cell[2]]
        IN  NullOrBlank(v) \/ ~TrimmedStartsWithPrefix(v)})

\* a client UPDATE succeeded on a row that also has a blank column and a column
\* holding a tag parameter behind another prefix, or white space before the prefix
ClientSkipsWitness ==
    /\ ~dryRun
    /\ phase = "finished"
    /\ \E i \in Indices(writes, "client") :
          /\ writes[i].ok
          /\ \E c \in ClientCols \ DOMAIN writes[i].set :
                LET v == db0.client[writes[i].id].cols[c]
                IN  v.Valid /\ HasTagKey(v.String) /\ ~TrimmedStartsWithPrefix(v)
    /\ \E i \in Indices(writes, "client") :
          /\ writes[i].ok
          /\ \E c \in ClientCols \ DOMAIN writes[i].set :
                LET v == db0.client[writes[i].id].cols[c]
                IN  v.Valid /\ TrimSpace(v.String) = <<>> /\ v.String # <<>>

\* C18 as stated: after a live run that finished without a failed fetch or UPDATE no
\* row visible to a migrator holds the key tag or tagging in the bulk archive_file,
\* in a parseable string entry of the partner list, or in a client column that
\* started with the signed-URL prefix.
NoTagLeft ==
    (phase = "finished" /\ ~dryRun /\ errLog = <<>>) =>
        /\ \A id \in DOMAIN db.bulk :
              Where("bulk", db0.bulk[id]) => ~HasTagKey(db.bulk[id].cols.archive_file.String)
        /\ \A id \in DOMAIN db.partner :
              (Where("partner", db0.partner[id]) /\ HasFileList(db.partner[id].cols.meta))
              => LET files == ValueOf(db.partner[id].cols.meta.String.doc,
                                      "partner_pos_attach_files").items
                 IN  \A n \in 1..Len(files) :
                         (files[n].t = "str" /\ ~Parse(files[n].s).err) => ~HasTagKey(files[n].s)
        /\ \A id \in DOMAIN db.client :
              Where("client", db0.client[id])
              => \A c \in ClientCols :
                     (db0.client[id].cols[c].Valid /\ StartsWithPrefix(db0.client[id].cols[c]))
                     => ~HasTagKey(db.client[id].cols[c].String)

NoDuplicates(seq) == \A i, j \in 1..Len(seq) : seq[i] = seq[j] => i = j

\* C19: a run in which no fetch fails reaches DONE in every migrator and finishes,
\* however many UPDATEs fail; every processed row, a row whose UPDATE failed
\* included, moves the cursor up to its id, and no row is processed twice.
RunTerminates ==
    /\ <>(phase = "finished" \/ fatal # "none")
    /\ [](phase = "finished" => \A t \in Tables : summary[t].logged)
    /\ [](\A t \in Tables : NoDuplicates(visited[t]))
    /\ [][\A t \in Tables :
             visited'[t] # visited[t]
             => /\ lastID' > lastID
                /\ lastID' = visited'[t][Len(visited'[t])]]_vars

\* a finished run in which every UPDATE failed, three of them in one table
RunTerminatesWitness ==
    /\ phase = "finished"
    /\ \A i \in 1..Len(writes) : ~writes[i].ok
    /\ \E t \in Tables : Cardinality(Indices(writes, t)) = 3
    /\ Len(errLog) = Len(writes)

Occurrences(seq, x) == Cardinality({i \in 1..Len(seq) : seq[i] = x})

\* C17 as stated: a matching row inserted with an id above the migrator's cursor
\* before the terminating empty fetch is processed exactly once before DONE.
InsertedRowPickedUpAsStated ==
    \A i \in 1..Len(inserted) :
        summary[inserted[i].table].logged
        => Occurrences(visited[inserted[i].table], inserted[i].id) = 1

\* C17, amended: a matching row inserted before the terminating empty fetch with an
\* id above the cursor and above every id of the page being processed is processed
\* exactly once before DONE; a row inserted with an id above the cursor but not
\* above the last id of the page being processed is not processed in this run.
InsertedRowPickedUp ==
    \A i \in 1..Len(inserted) :
        summary[inserted[i].table].logged
        => Occurrences(visited[inserted[i].table], inserted[i].id)
             = IF inserted[i].ahead THEN 1 ELSE 0

\* a row inserted while a page was being processed, above the ids of that page, was
\* processed before the migrator reached DONE
InsertedRowWitness ==
    /\ phase = "finished"
    /\ \E i \in 1..Len(inserted) :
          /\ inserted[i].ahead
          /\ inserted[i].cursor > 0
          /\ inserted[i].id <= Len(db0[inserted[i].table])
          /\ Occurrences(visited[inserted[i].table], inserted[i].id) = 1

\* the (table, id, column, new value) changes of a log
Changes(log) ==
    UNION {{<<log[i].table, log[i].id, c, log[i].set[c]>> : c \in DOMAIN log[i].set} :
              i \in 1..Len(log)}

\* C20: the changes a dry run logs are the UPDATEs a live run issues from the same
\* store with the same configuration when no UPDATE fails: the same (table, id,
\* column, new value), in the same order; while it runs the live run has issued
\* only changes the dry run logged.
DryRunIsFaithful ==
    ~dryRun =>
        /\ Changes(writes) \subseteq Changes(preview)
        /\ Len(writes) <= Len(preview)
        /\ \A i \in 1..Len(writes) :
              /\ writes[i].ok
              /\ writes[i].table = preview[i].table
              /\ writes[i].id = preview[i].id
              /\ writes[i].set = preview[i].set
        /\ phase = "finished" => (Changes(writes) = Changes(preview) /\ Len(writes) = Len(preview))

\* a finished live run after a dry run that logged changes in all three tables
DryRunIsFaithfulWitness ==
    /\ ~dryRun
    /\ phase = "finished"
    /\ \A t \in Tables : Indices(preview, t) # {} /\ Indices(writes, t) # {}
    /\ Len(writes) >= 4

====
